---- MODULE Spec2Model ----
(***************************************************************************)
(* A model of py_grama's evaluation routines:                             *)
(*   grama/evals/random_sampling.py : eval_monte_carlo                     *)
(*   grama/eval_opt.py              : eval_nls, eval_min                   *)
(*                                                                         *)
(* Numbers are integers.  Sampled values are kept in units of 1/Levels, so *)
(* the uniform value k/Levels is the integer k and the real number v is    *)
(* the integer v*Levels.  Python's None is a sentinel of the same sort as  *)
(* the values it stands beside.                                            *)
(***************************************************************************)
EXTENDS Integers, Sequences, FiniteSets, TLC

VARIABLES
    \* ---- eval_monte_carlo ----
    md,          \* the model handed to eval_monte_carlo (fixed during a run)
    rng,         \* the state of numpy's process-wide generator
    mc_pc,       \* per caller: position in eval_monte_carlo
    mc_seed,     \* per caller: the seed argument (NoSeed for None)
    mc_n,        \* per caller: the n_samples argument
    mc_samples,  \* per caller: the local matrix `samples`
    mc_df,       \* per caller: df_inputs, the table handed to core.eval_df
    mc_err,      \* per caller: the exception raised, "" if none
    mc_Sigma,    \* the covariance matrix of lines 34-40, <<>> before it is built
    \* ---- eval_nls and eval_min ----
    model,       \* the model handed to eval_nls or eval_min
    op,          \* the function called: "nls", "min" or "" before the call
    args,        \* its arguments
    pc,          \* position in the function
    out,         \* eval_nls: `out` after the default is substituted
    var_fix,     \* eval_nls: the set var_fix
    var_feat,    \* eval_nls: the set var_feat
    var_fit_set, \* eval_nls: var_fit as the set of line 93
    var_fit,     \* eval_nls: var_fit as the list of line 105
    bounds,      \* eval_nls: the list bounds
    df_nom,      \* the nominal row (eval_nominal)
    x0,          \* the initial guess under way
    nls_i,       \* eval_nls: the loop index i
    constraints, \* eval_min: the list constraints
    x_trial,     \* the point of the latest objective evaluation
    df_var,      \* the table of the latest objective evaluation
    n_eval,      \* objective evaluations of the solver call under way
    solver_calls,\* invocations of scipy.optimize.minimize so far
    res,         \* the result of the latest minimize call
    df_res,      \* the result table under construction
    err,         \* the exception raised, NoErr if none
    ret,         \* the table returned, NoFrame before the return
    first_run    \* eval_nls: what an earlier run on the same inputs produced

mcvars == <<md, rng, mc_pc, mc_seed, mc_n, mc_samples, mc_df, mc_err, mc_Sigma>>

optvars == <<model, op, args, pc, out, var_fix, var_feat, var_fit_set, var_fit,
             bounds, df_nom, x0, nls_i, constraints, x_trial, df_var, n_eval,
             solver_calls, res, df_res, err, ret, first_run>>

vars == <<mcvars, optvars>>

-----------------------------------------------------------------------------
(* Bounds of the model *)

MaxSamples == 2      \* largest n_samples
MaxIn == 2           \* largest model.n_in
MaxSeed == 1         \* seeds are 0..MaxSeed
RngMod == 8          \* number of generator states
Levels == 4          \* uniform values are k/Levels, k in 0..Levels-1
MaxRows == 2         \* largest number of rows of df_data
MaxEval == 2         \* objective evaluations per solver call
MaxDim == 4          \* largest n_in a correlation matrix is built for
MaxCorr == 1         \* the entries of pdf_corr are 0..MaxCorr

-----------------------------------------------------------------------------
(* Values *)

\* numpy's Inf; -Inf is its negation
Inf == 1000

\* seed = None
NoSeed == -1

Min2(a, b) == IF a <= b THEN a ELSE b
Max2(a, b) == IF a >= b THEN a ELSE b

Callers == {1, 2}

-----------------------------------------------------------------------------
(* numpy.random: the shared generator *)

\* np.random.seed(s): the state is a function of the seed alone
SeedState(s) == (3 * s + 1) % RngMod

\* one draw advances the state
RngStep(st) == (5 * st + 3) % RngMod

\* the uniform value a state yields, as a level in 0..Levels-1
RngOut(st) == st % Levels

RECURSIVE RngIter(_, _)
RngIter(st, k) == IF k = 0 THEN st ELSE RngIter(RngStep(st), k - 1)

\* the draws filled in column by column
RandomMatrixColumnMajor(st, n, n_in) ==
    [r \in 1..n |-> [c \in 1..n_in |-> RngOut(RngIter(st, (c - 1) * n + r))]]

\* np.random.random((n, n_in)): n*n_in draws, filled in row-major order
RandomMatrix(st, n, n_in) ==
    [r \in 1..n |-> [c \in 1..n_in |-> RngOut(RngIter(st, (r - 1) * n_in + c))]]

-----------------------------------------------------------------------------
(* scipy.stats.norm on the grid of levels *)

\* norm.ppf at level k for loc, scale: -Inf at 0, the median at Levels/2
NormPpf(k, loc, scale) ==
    IF k = 0 THEN -Inf ELSE loc * Levels + scale * (2 * k - Levels)

\* norm.cdf of a standard-normal value x (in units of 1/Levels), as a level
NormCdf(x) == Max2(0, Min2(Levels - 1, (x + Levels) \div 2))

-----------------------------------------------------------------------------
(* The correlation matrix of eval_monte_carlo *)

RECURSIVE TriuFrom(_, _)
TriuFrom(i, n) ==
    IF i >= n THEN <<>>
    ELSE [k \in 1..(n - 1 - i) |-> <<i, i + k>>] \o TriuFrom(i + 1, n)

\* np.triu_indices(n, 1): the cells above the diagonal, row by row
TriuIndices(n) == TriuFrom(0, n)

RECURSIVE TrilFrom(_, _)
TrilFrom(i, n) ==
    IF i >= n THEN <<>>
    ELSE [k \in 1..i |-> <<i, k - 1>>] \o TrilFrom(i + 1, n)

\* np.tril_indices(n, -1): the cells below the diagonal, row by row
TrilIndices(n) == TrilFrom(0, n)

\* np.eye(n)
Eye(n) == [p \in (0..(n - 1)) \X (0..(n - 1)) |-> IF p[1] = p[2] THEN 1 ELSE 0]

\* M[idx] = vals: cell idx[k] takes vals[k]
AssignCells(M, idx, vals) ==
    [p \in DOMAIN M |->
        IF \E k \in DOMAIN idx : idx[k] = p
        THEN vals[CHOOSE k \in DOMAIN idx : idx[k] = p]
        ELSE M[p]]

\* Sigma as lines 34-36 build it
BuildSigma(n, corr) ==
    AssignCells(AssignCells(Eye(n), TriuIndices(n), corr), TrilIndices(n), corr)

\* np.random.multivariate_normal(mean = ones, cov = Sigma, size = n) followed
\* by norm.cdf: n*n_in normal draws, mixed through Sigma and shifted by the
\* mean of one, then mapped to levels
CopulaMatrix(st, n, n_in, Sigma) ==
    LET z == [r \in 1..n |-> [c \in 1..n_in |->
                 2 * RngOut(RngIter(st, (r - 1) * n_in + c)) - Levels]]
        Mix(r, c, j) == Sigma[<<c - 1, j - 1>>] * z[r][j]
        RECURSIVE Dot(_, _, _)
        Dot(r, c, j) == IF j = 0 THEN 0 ELSE Mix(r, c, j) + Dot(r, c, j - 1)
    IN  [r \in 1..n |-> [c \in 1..n_in |-> NormCdf(Levels + Dot(r, c, n_in))]]

-----------------------------------------------------------------------------
(* Models handed to eval_monte_carlo *)

InputNames == <<"x0", "x1", "x2", "x3", "x4">>

\* a marginal: its entry of pdf_factors and its entry of pdf_param
MarginalChoices ==
    { [factor |-> "unif", param |-> [lower |-> 0, upper |-> 1]],
      [factor |-> "unif", param |-> [lower |-> 1, upper |-> 3]],
      [factor |-> "norm", param |-> [loc |-> 0, scale |-> 1]],
      [factor |-> "lognorm", param |-> [loc |-> 0, scale |-> 1]] }

\* Domain bounds, the same pair for every input of one model
BoundChoices == { <<0, 1>>, <<0, 3>> }

\* pdf_corr: None, or the list of the n(n-1)/2 off-diagonal entries
CorrChoices(n) ==
    { [present |-> FALSE, entries |-> <<>>],
      [present |-> TRUE, entries |-> [k \in 1..((n * (n - 1)) \div 2) |-> 1]] }

MakeModel(n, ms, b, corr, density, drop) ==
    [ density     |-> density,
      pdf_factors |-> [i \in 1..n |-> ms[i].factor],
      pdf_param   |-> [i \in 1..(n - drop) |-> ms[i].param],
      has_corr    |-> corr.present,
      pdf_corr    |-> corr.entries,
      n_in        |-> n,
      inputs      |-> [i \in 1..n |-> InputNames[i]],
      bounds      |-> [x \in {InputNames[i] : i \in 1..n} |-> b] ]

NoCorr == [present |-> FALSE, entries |-> <<>>]

NormMarginal == CHOOSE m \in MarginalChoices : m.factor = "norm"

\* the models with a factorable density, one with pdf_param an entry short
\* of pdf_factors, and one without a density
McModels ==
    { MakeModel(q[1], q[2], q[3], q[4], TRUE, 0) :
        q \in UNION { {n} \X [1..n -> MarginalChoices] \X BoundChoices \X CorrChoices(n) :
                        n \in 1..MaxIn } }
    \cup { MakeModel(1, <<NormMarginal>>, <<0, 1>>, NoCorr, TRUE, 1),
           MakeModel(1, <<NormMarginal>>, <<0, 1>>, NoCorr, FALSE, 0) }

\* the models with 2..MaxDim normal inputs and every list of off-diagonal
\* entries of the length their correlation matrix needs
SigmaModels ==
    { MakeModel(q[1], [i \in 1..q[1] |-> NormMarginal], <<0, 1>>,
                [present |-> TRUE, entries |-> q[2]], TRUE, 0) :
        q \in UNION { {n} \X [1..((n * (n - 1)) \div 2) -> 0..MaxCorr] :
                        n \in 2..MaxDim } }

-----------------------------------------------------------------------------
(* eval_monte_carlo, step by step *)

NoFrame == [columns |-> <<>>, data |-> <<>>]

Finished(c) == mc_pc[c] \in {"done", "error"}
Running(c) == mc_pc[c] \notin {"idle", "done", "error"}

\* no call is in progress: the single-threaded use of the sampler
Quiet == \A c \in Callers : ~Running(c)

\* eval_monte_carlo(model, n_samples = n, seed = seed) is entered
McCall(c, seed, n) ==
    /\ mc_pc[c] = "idle"
    /\ mc_pc' = [mc_pc EXCEPT ![c] = "check"]
    /\ mc_seed' = [mc_seed EXCEPT ![c] = seed]
    /\ mc_n' = [mc_n EXCEPT ![c] = n]
    /\ UNCHANGED <<mc_Sigma, md, rng, mc_samples, mc_df, mc_err, optvars>>

\* the generator seeded before the density is checked
McCheckSeedFirst(c) ==
    /\ mc_pc[c] = "check"
    /\ rng' = IF mc_seed[c] /= NoSeed THEN SeedState(mc_seed[c]) ELSE rng
    /\ IF md.density /\ Len(md.pdf_factors) = Len(md.pdf_param)
       THEN /\ mc_pc' = [mc_pc EXCEPT ![c] = "seed"]
            /\ UNCHANGED mc_err
       ELSE /\ mc_pc' = [mc_pc EXCEPT ![c] = "error"]
            /\ mc_err' = [mc_err EXCEPT ![c] = "ValueError: not factorable"]
    /\ UNCHANGED <<mc_Sigma, md, mc_seed, mc_n, mc_samples, mc_df, optvars>>

\* lines 20-25: the density must be there and its two lists the same length
McCheck(c) ==
    /\ mc_pc[c] = "check"
    /\ IF md.density
       THEN IF Len(md.pdf_factors) /= Len(md.pdf_param)
            THEN /\ mc_pc' = [mc_pc EXCEPT ![c] = "error"]
                 /\ mc_err' = [mc_err EXCEPT ![c] = "ValueError: lengths differ"]
            ELSE /\ mc_pc' = [mc_pc EXCEPT ![c] = "seed"]
                 /\ UNCHANGED mc_err
       ELSE /\ mc_pc' = [mc_pc EXCEPT ![c] = "error"]
            /\ mc_err' = [mc_err EXCEPT ![c] = "ValueError: not factorable"]
    /\ UNCHANGED <<mc_Sigma, md, rng, mc_seed, mc_n, mc_samples, mc_df,
                 optvars>>

\* a seed test by truthiness, which skips seed 0
McSeedIfTruthy(c) ==
    /\ mc_pc[c] = "seed"
    /\ rng' = IF mc_seed[c] /= NoSeed /\ mc_seed[c] /= 0
              THEN SeedState(mc_seed[c]) ELSE rng
    /\ mc_pc' = [mc_pc EXCEPT ![c] = "draw"]
    /\ UNCHANGED <<mc_Sigma, md, mc_seed, mc_n, mc_samples, mc_df, mc_err,
                 optvars>>

\* lines 27-29: seed the shared generator only if a seed is given
McSeed(c) ==
    /\ mc_pc[c] = "seed"
    /\ rng' = IF mc_seed[c] /= NoSeed THEN SeedState(mc_seed[c]) ELSE rng
    /\ mc_pc' = [mc_pc EXCEPT ![c] = "draw"]
    /\ UNCHANGED <<mc_Sigma, md, mc_seed, mc_n, mc_samples, mc_df, mc_err,
                 optvars>>

\* lines 31-47: draw the uniforms, through the copula if pdf_corr is given
McDraw(c) ==
    /\ mc_pc[c] = "draw"
    /\ mc_samples' = [mc_samples EXCEPT ![c] =
          IF md.has_corr
          THEN CopulaMatrix(rng, mc_n[c], md.n_in, BuildSigma(md.n_in, md.pdf_corr))
          ELSE RandomMatrix(rng, mc_n[c], md.n_in)]
    /\ rng' = RngIter(rng, mc_n[c] * md.n_in)
    /\ mc_pc' = [mc_pc EXCEPT ![c] = "convert"]
    /\ UNCHANGED <<mc_Sigma, md, mc_seed, mc_n, mc_df, mc_err, optvars>>

\* the affine map with the width upper - lower replaced by upper
ConvertCellNoWidth(u, ind) ==
    IF md.pdf_factors[ind] = "unif"
    THEN u * md.pdf_param[ind].upper + md.pdf_param[ind].lower * Levels
    ELSE IF md.pdf_factors[ind] = "norm"
    THEN NormPpf(u, md.pdf_param[ind].loc, md.pdf_param[ind].scale)
    ELSE u

\* lines 50-63: the value of one cell after the loop over the columns
ConvertCell(u, ind) ==
    IF md.pdf_factors[ind] = "unif"
    THEN u * (md.pdf_param[ind].upper - md.pdf_param[ind].lower)
           + md.pdf_param[ind].lower * Levels
    ELSE IF md.pdf_factors[ind] = "norm"
    THEN NormPpf(u, md.pdf_param[ind].loc, md.pdf_param[ind].scale)
    ELSE u

\* lines 49-71: convert the columns, build df_inputs, hand it to core.eval_df
McConvert(c) ==
    /\ mc_pc[c] = "convert"
    /\ LET converted == [r \in 1..mc_n[c] |->
                           [ind \in 1..md.n_in |-> ConvertCell(mc_samples[c][r][ind], ind)]]
       IN  /\ mc_samples' = [mc_samples EXCEPT ![c] = converted]
           /\ mc_df' = [mc_df EXCEPT ![c] = [columns |-> md.inputs, data |-> converted]]
    /\ mc_pc' = [mc_pc EXCEPT ![c] = "done"]
    /\ UNCHANGED <<mc_Sigma, md, rng, mc_seed, mc_n, mc_err, optvars>>

\* lines 32-36: the covariance matrix is built from pdf_corr
McBuildSigma ==
    /\ md.has_corr
    /\ mc_Sigma = <<>>
    /\ mc_Sigma' = BuildSigma(md.n_in, md.pdf_corr)
    /\ UNCHANGED <<md, rng, mc_pc, mc_seed, mc_n, mc_samples, mc_df, mc_err,
                 optvars>>

\* other code of the process seeds the shared generator
EnvSeed(s) ==
    /\ rng' = SeedState(s)
    /\ UNCHANGED <<mc_Sigma, md, mc_pc, mc_seed, mc_n, mc_samples, mc_df,
                 mc_err, optvars>>

\* other code of the process draws from the shared generator
EnvDraw ==
    /\ rng' = RngStep(rng)
    /\ UNCHANGED <<mc_Sigma, md, mc_pc, mc_seed, mc_n, mc_samples, mc_df,
                 mc_err, optvars>>

Seeds == {NoSeed} \cup (0..MaxSeed)

-----------------------------------------------------------------------------
(* Tables, lists and None, as eval_nls and eval_min use them *)

Range(s) == {s[i] : i \in DOMAIN s}

\* an optional list argument: None, or a list
None == [none |-> TRUE, items |-> <<>>]
List(s) == [none |-> FALSE, items |-> s]

\* every name a variable, an output or a data column may carry, in the order
\* tables list their columns
AllNames == <<"a", "b", "c", "f", "g", "h">>

\* the names of S as a list in the order of AllNames
Ordered(S) == SelectSeq(AllNames, LAMBDA n : n \in S)

\* the orders a Python set of names may be iterated in
Orders(S) == {p \in [1..Cardinality(S) -> S] : \A i, j \in DOMAIN p : p[i] = p[j] => i = j}

\* the first column of the table df that is named n (0 if none is)
ColIndex(df, n) ==
    IF \E k \in DOMAIN df.columns : df.columns[k] = n
    THEN CHOOSE k \in DOMAIN df.columns :
            /\ df.columns[k] = n
            /\ \A j \in DOMAIN df.columns : df.columns[j] = n => k <= j
    ELSE 0

\* df[cols]: the columns named in the list cols, in that order
Select(df, cols) ==
    [columns |-> cols,
     data    |-> [r \in DOMAIN df.data |->
                    [k \in DOMAIN cols |-> df.data[r][ColIndex(df, cols[k])]]]]

\* pandas.concat(..., axis = 1) of two tables with as many rows
ConcatColumns(df1, df2) ==
    [columns |-> df1.columns \o df2.columns,
     data    |-> [r \in DOMAIN df1.data |-> df1.data[r] \o df2.data[r]]]

\* df_make(**dict(zip(names, values))): a table of one row
MakeRow(names, values) ==
    [columns |-> names, data |-> <<[k \in DOMAIN names |-> values[k]]>>]

\* tran_outer(df, df_outer) for a df_outer of one row: that row is repeated
\* beside every row of df
TranOuter(df, df_outer) ==
    [columns |-> df.columns \o df_outer.columns,
     data    |-> [r \in DOMAIN df.data |-> df.data[r] \o df_outer.data[1]]]

-----------------------------------------------------------------------------
(* Models handed to eval_nls and eval_min *)

IsFinite(v) == -Inf < v /\ v < Inf

\* Domain bounds of a deterministic variable: of width 0, a box, semi-infinite
DomainChoices == { <<1, 1>>, <<0, 2>>, <<0, Inf>> }

\* the one marginal of a random variable: q(0), q(1) and its median
MarginalQ == [q0 |-> 0, q1 |-> 2, median |-> 1]

\* "a" is deterministic, "b" deterministic or random, "c" random or absent;
\* the outputs are "f" and "g"
MakeOptModel(da, b_det, db, c_in) ==
    [ var_det  |-> IF b_det THEN <<"a", "b">> ELSE <<"a">>,
      var_rand |-> (IF b_det THEN <<>> ELSE <<"b">>) \o (IF c_in THEN <<"c">> ELSE <<>>),
      out      |-> <<"f", "g">>,
      bounds   |-> [v \in (IF b_det THEN {"a", "b"} ELSE {"a"}) |->
                       IF v = "a" THEN da ELSE db] ]

OptModels ==
    { MakeOptModel(da, TRUE, db, c_in) :
        da \in DomainChoices, db \in DomainChoices, c_in \in BOOLEAN }
    \cup { MakeOptModel(da, FALSE, <<0, 2>>, c_in) :
        da \in DomainChoices, c_in \in BOOLEAN }

\* model.var: the deterministic variables, then the random ones
Var(m) == m.var_det \o m.var_rand

\* model.n_var_rand
NVarRand(m) == Len(m.var_rand)

\* model.domain.get_bound(var)
GetBound(m, v) == m.bounds[v]

\* model.domain.get_width(var): upper - lower
GetWidth(m, v) ==
    IF IsFinite(m.bounds[v][1]) /\ IsFinite(m.bounds[v][2])
    THEN m.bounds[v][2] - m.bounds[v][1]
    ELSE Inf

\* model.domain.get_nominal(var): the midpoint of the bounds
GetNominal(m, v) ==
    IF IsFinite(m.bounds[v][1]) /\ IsFinite(m.bounds[v][2])
    THEN (m.bounds[v][1] + m.bounds[v][2]) \div 2
    ELSE IF IsFinite(m.bounds[v][1]) THEN Inf ELSE -Inf

\* eval_nominal(model, df_det = "nom", skip = True): one row, the nominal
\* value of every deterministic variable and the median of every random one
EvalNominal(m) ==
    MakeRow(Var(m), [k \in DOMAIN Var(m) |->
                        IF Var(m)[k] \in Range(m.var_det)
                        THEN GetNominal(m, Var(m)[k])
                        ELSE MarginalQ.median])

RECURSIVE SumSeq(_)
SumSeq(s) == IF s = <<>> THEN 0 ELSE Head(s) + SumSeq(Tail(s))

\* the model's functions on one row of inputs: "f" is the sum of the
\* variables, "g" twice the sum
OutputValue(o, inputs) == IF o = "f" THEN SumSeq(inputs) ELSE 2 * SumSeq(inputs)

\* eval_df(model, df): the inputs followed by the outputs, row by row; the
\* model's variables are looked up by name
EvalDf(m, df) ==
    LET inputs(r) == [k \in DOMAIN Var(m) |-> df.data[r][ColIndex(df, Var(m)[k])]]
    IN  [columns |-> df.columns \o m.out,
         data    |-> [r \in DOMAIN df.data |->
                        df.data[r] \o [k \in DOMAIN m.out |-> OutputValue(m.out[k], inputs(r))]]]

\* the observed data: the columns cols, nrows rows; row r holds 2r in a
\* variable's column and 3r in an output's
MakeData(cols, nrows) ==
    [columns |-> Ordered(cols),
     data    |-> [r \in 1..nrows |->
                    [k \in DOMAIN Ordered(cols) |->
                        IF Ordered(cols)[k] \in {"a", "b", "c"} THEN 2 * r ELSE 3 * r]]]

DataChoices == { MakeData(cols, nrows) : cols \in SUBSET {"a", "c", "f", "g"}, nrows \in 1..MaxRows }

\* the arguments of eval_nls
NlsArgs ==
    [ df_data  : DataChoices,
      out      : {None, List(<<"f">>), List(<<"f", "h">>)},
      var_fix  : {None, List(<<"a">>), List(<<"b", "c">>)},
      append   : BOOLEAN,
      nrestart : {1, 2} ]

\* the arguments of eval_min; df_start is None or a row of model.var
MinArgs ==
    [ out_min  : {"f", "h"},
      out_geq  : {None, List(<<"g">>), List(<<"f", "g">>), List(<<"g", "h">>)},
      out_eq   : {None, List(<<"f">>), List(<<"h", "f", "c">>)},
      nrestart : {1, 2},
      df_start : BOOLEAN ]

NoErr == [kind |-> "", check |-> "", named |-> FALSE, detail |-> {}]

\* an exception: its type, the check that raised it, and the set of names
\* its message carries (named is FALSE for a message that carries none)
Error(kind, check, named, detail) ==
    [kind |-> kind, check |-> check, named |-> named, detail |-> detail]

-----------------------------------------------------------------------------
(* eval_nls, step by step *)

\* eval_nls(model, df_data, out, var_fix, append, nrestart = ...) is entered
NlsCall(a) ==
    /\ pc = "idle"
    /\ op' = "nls"
    /\ args' = a
    /\ pc' = "nls_out"
    /\ UNCHANGED <<mcvars, first_run, model, out, var_fix, var_feat,
                 var_fit_set, var_fit, bounds, df_nom, x0, nls_i,
                 constraints, x_trial, df_var, n_eval, solver_calls, res,
                 df_res, err, ret>>

\* the difference taken the wrong way round
OutDiffReversed(o, df) == Range(df.columns) \ Range(o)

\* line 70: the names of out that are no column of df_data
OutDiff(o, df) == Range(o) \ Range(df.columns)

\* lines 66-75: default `out`, then require it to be among df_data's columns
NlsCheckOut ==
    /\ pc = "nls_out"
    /\ LET o == IF args.out.none THEN model.out ELSE args.out.items
           set_diff == OutDiff(o, args.df_data)
       IN  /\ out' = o
           /\ IF Cardinality(set_diff) > 0
              THEN /\ err' = Error("ValueError", "out", TRUE, set_diff)
                   /\ pc' = "error"
              ELSE /\ err' = err
                   /\ pc' = "nls_roles"
    /\ UNCHANGED <<mcvars, first_run, model, op, args, var_fix, var_feat,
                 var_fit_set, var_fit, bounds, df_nom, x0, nls_i,
                 constraints, x_trial, df_var, n_eval, solver_calls, res,
                 df_res, ret>>

\* lines 82-85: the deterministic variables whose Domain width is 0
ZeroWidth(m) == {v \in Range(m.var_det) : GetWidth(m, v) = 0}

\* lines 78-85: var_fix as a set, with the variables of width 0 added
VarFix(m, given) ==
    (IF given.none THEN {} ELSE Range(given.items)) \cup ZeroWidth(m)

\* line 89
VarFeat(m, df) == Range(Var(m)) \cap Range(df.columns)

\* var_fit without the features taken out
VarFitSetKeepingFeat(m, fix, feat) == Range(Var(m)) \ fix

\* line 93
VarFitSet(m, fix, feat) == Range(Var(m)) \ (fix \cup feat)

\* lines 77-98: the roles of the variables; fail if none is left to fit
NlsRoles ==
    /\ pc = "nls_roles"
    /\ var_fix' = VarFix(model, args.var_fix)
    /\ var_feat' = VarFeat(model, args.df_data)
    /\ var_fit_set' = VarFitSet(model, var_fix', var_feat')
    /\ IF Cardinality(var_fit_set') = 0
       THEN /\ err' = Error("ValueError", "var_fit", FALSE, {})
            /\ pc' = "error"
       ELSE /\ err' = err
            /\ pc' = "nls_bounds"
    /\ UNCHANGED <<mcvars, first_run, model, op, args, out, var_fit, bounds,
                 df_nom, x0, nls_i, constraints, x_trial, df_var, n_eval,
                 solver_calls, res, df_res, ret>>

\* the loop left at the first offending variable
VarProbFirstOnly(m, fit_det) ==
    LET all == SelectSeq(fit_det, LAMBDA v : ~IsFinite(GetNominal(m, v)))
    IN  IF all = <<>> THEN <<>> ELSE <<all[1]>>

\* the test made on the lower bound instead of the nominal value
VarProbByLowerBound(m, fit_det) ==
    SelectSeq(fit_det, LAMBDA v : ~IsFinite(GetBound(m, v)[1]))

\* lines 108-111: the fit variables whose nominal value is not finite
VarProb(m, fit_det) == SelectSeq(fit_det, LAMBDA v : ~IsFinite(GetNominal(m, v)))

\* lines 100-121: order var_fit (the deterministic variables, then the random
\* ones, each group in the order Python iterates the set in) and build the
\* bounds; fail if a deterministic fit variable has no finite nominal value
NlsBounds ==
    /\ pc = "nls_bounds"
    /\ \E var_fit_det \in Orders(Range(model.var_det) \cap var_fit_set),
          var_fit_rand \in Orders(Range(model.var_rand) \cap var_fit_set) :
          LET var_prob == VarProb(model, var_fit_det)
              det_bounds == [k \in DOMAIN var_fit_det |-> GetBound(model, var_fit_det[k])]
              rand_bounds == [k \in DOMAIN var_fit_rand |-> <<MarginalQ.q0, MarginalQ.q1>>]
          IN  /\ var_fit' = var_fit_det \o var_fit_rand
              /\ IF Len(var_prob) > 0
                 THEN /\ bounds' = det_bounds
                      /\ err' = Error("ValueError", "nominal", TRUE, Range(var_prob))
                      /\ pc' = "error"
                 ELSE /\ bounds' = det_bounds \o rand_bounds
                      /\ err' = err
                      /\ pc' = "nls_init"
    /\ UNCHANGED <<mcvars, first_run, model, op, args, out, var_fix,
                 var_feat, var_fit_set, df_nom, x0, nls_i, constraints,
                 x_trial, df_var, n_eval, solver_calls, res, df_res, ret>>

\* lines 123-131: the nominal row; random restarts are not implemented
NlsInit ==
    /\ pc = "nls_init"
    /\ df_nom' = EvalNominal(model)
    /\ IF args.nrestart > 1
       THEN /\ err' = Error("NotImplementedError", "nrestart", FALSE, {})
            /\ pc' = "error"
       ELSE /\ err' = err
            /\ pc' = "nls_loop"
    /\ nls_i' = 0
    /\ df_res' = NoFrame
    /\ UNCHANGED <<mcvars, first_run, model, op, args, out, var_fix,
                 var_feat, var_fit_set, var_fit, bounds, x0, constraints,
                 x_trial, df_var, n_eval, solver_calls, res, ret>>

\* the points the solver evaluates the objective at: the initial guess, and
\* the initial guess moved by one in a single coordinate
Trials(x) ==
    {x} \cup { [x EXCEPT ![k] = x[k] + 1] : k \in DOMAIN x }

\* lines 130-133 and 151: take the next initial guess and enter minimize, or
\* leave the loop
NlsIterate ==
    /\ pc = "nls_loop"
    /\ IF nls_i < Len(Select(df_nom, var_fit).data)
       THEN /\ x0' = Select(df_nom, var_fit).data[nls_i + 1]
            /\ solver_calls' = solver_calls + 1
            /\ n_eval' = 0
            /\ pc' = "nls_min"
       ELSE /\ UNCHANGED <<x0, solver_calls, n_eval>>
            /\ pc' = "nls_post"
    /\ UNCHANGED <<mcvars, first_run, model, op, args, out, var_fix,
                 var_feat, var_fit_set, var_fit, bounds, df_nom, nls_i,
                 constraints, x_trial, df_var, res, df_res, err, ret>>

\* lines 138-144: the table the objective evaluates at the trial point x
ObjectiveTable(data, nom, fix, feat, fit, x) ==
    TranOuter(Select(data, Ordered(feat)),
              ConcatColumns(Select(nom, Ordered(fix)), MakeRow(fit, x)))

\* the squares of the first column of `out` alone, averaged over the rows
JointMseFirstOut(m, table, data, o) ==
    LET ev == Select(EvalDf(m, table), <<o[1]>>)
        ob == Select(data, <<o[1]>>)
        sq(r) == (ev.data[r][1] - ob.data[r][1]) * (ev.data[r][1] - ob.data[r][1])
    IN  [sum   |-> SumSeq([r \in DOMAIN data.data |-> sq(r)]),
         count |-> Len(data.data)]

\* line 148: ((df_res[out].values - df_data[out].values) ** 2).mean(), as the
\* sum of the squares and the number of cells it is divided by
JointMse(m, table, data, o) ==
    LET ev == Select(EvalDf(m, table), o)
        ob == Select(data, o)
        sq(r) == [k \in DOMAIN o |-> (ev.data[r][k] - ob.data[r][k]) * (ev.data[r][k] - ob.data[r][k])]
    IN  [sum   |-> SumSeq([r \in DOMAIN data.data |-> SumSeq(sq(r))]),
         count |-> Len(data.data) * Len(o)]

\* lines 135-148: the solver evaluates the objective at a trial point; a
\* name of var_fix that df_nom does not have ends the call with a KeyError
NlsObjective ==
    /\ pc = "nls_min"
    /\ n_eval < MaxEval
    /\ \E x \in Trials(x0) :
          IF var_fix \subseteq Range(df_nom.columns)
          THEN /\ x_trial' = x
               /\ df_var' = ObjectiveTable(args.df_data, df_nom, var_fix, var_feat, var_fit, x)
               /\ n_eval' = n_eval + 1
               /\ UNCHANGED <<err, pc>>
          ELSE /\ err' = Error("KeyError", "var_fix", TRUE, var_fix \ Range(df_nom.columns))
               /\ pc' = "error"
               /\ UNCHANGED <<x_trial, df_var, n_eval>>
    /\ UNCHANGED <<mcvars, first_run, model, op, args, out, var_fix,
                 var_feat, var_fit_set, var_fit, bounds, df_nom, x0, nls_i,
                 constraints, solver_calls, res, df_res, ret>>

\* the name a fit variable's initial value is stored under
Suffix0(names) == [k \in DOMAIN names |-> names[k] \o "_0"]

\* lines 162-173: the row of one initial guess
ResultRow(fit, r, guess) ==
    MakeRow(fit \o Suffix0(fit) \o <<"status", "mse">>,
            r.x \o guess \o <<r.status, r.fun>>)

\* pandas.concat(..., axis = 0) of a table and a row with the same columns
ConcatRows(df, row) ==
    IF df = NoFrame THEN row
    ELSE [columns |-> df.columns, data |-> df.data \o row.data]

\* lines 151-173: minimize returns, converged (status 0) or at its iteration
\* limit (status 9), and the row of this guess is appended
NlsMinimizeReturn ==
    /\ pc = "nls_min"
    /\ n_eval >= 1
    /\ \E status \in {0, 9} :
          /\ res' = [x |-> x_trial, status |-> status,
                     fun |-> JointMse(model, df_var, args.df_data, out)]
          /\ df_res' = ConcatRows(df_res, ResultRow(var_fit, res', x0))
    /\ nls_i' = nls_i + 1
    /\ pc' = "nls_loop"
    /\ UNCHANGED <<mcvars, first_run, model, op, args, out, var_fix,
                 var_feat, var_fit_set, var_fit, bounds, df_nom, x0,
                 constraints, x_trial, df_var, n_eval, solver_calls, err,
                 ret>>

\* lines 175-179: the whole table, or the fitted columns alone
NlsReturn ==
    /\ pc = "nls_post"
    /\ ret' = IF args.append THEN df_res ELSE Select(df_res, var_fit)
    /\ pc' = "done"
    /\ UNCHANGED <<mcvars, first_run, model, op, args, out, var_fix,
                 var_feat, var_fit_set, var_fit, bounds, df_nom, x0, nls_i,
                 constraints, x_trial, df_var, n_eval, solver_calls, res,
                 df_res, err>>

-----------------------------------------------------------------------------
(* eval_min, step by step *)

\* eval_min(model, out_min, out_geq, out_eq, nrestart = ..., df_start) is
\* entered
MinCall(a) ==
    /\ pc = "idle"
    /\ op' = "min"
    /\ args' = a
    /\ pc' = "min_check"
    /\ UNCHANGED <<mcvars, first_run, model, out, var_fix, var_feat,
                 var_fit_set, var_fit, bounds, df_nom, x0, nls_i,
                 constraints, x_trial, df_var, n_eval, solver_calls, res,
                 df_res, err, ret>>

\* lines 255 and 261: the names of a constraint list that are no output
MissingOut(m, names) == IF names.none THEN {} ELSE Range(names.items) \ Range(m.out)

\* the test of the random variables off by one
MinCheckErrorOffByOne(m, a) ==
    IF NVarRand(m) > 1
    THEN Error("ValueError", "rand", FALSE, {})
    ELSE IF ~(a.out_min \in Range(m.out))
    THEN Error("ValueError", "out_min", FALSE, {})
    ELSE IF Cardinality(MissingOut(m, a.out_geq)) > 0
    THEN Error("ValueError", "out_geq", TRUE, MissingOut(m, a.out_geq))
    ELSE IF Cardinality(MissingOut(m, a.out_eq)) > 0
    THEN Error("ValueError", "out_eq", TRUE, MissingOut(m, a.out_eq))
    ELSE NoErr

\* out_eq checked before out_geq
MinCheckErrorEqFirst(m, a) ==
    IF NVarRand(m) > 0
    THEN Error("ValueError", "rand", FALSE, {})
    ELSE IF ~(a.out_min \in Range(m.out))
    THEN Error("ValueError", "out_min", FALSE, {})
    ELSE IF Cardinality(MissingOut(m, a.out_eq)) > 0
    THEN Error("ValueError", "out_eq", TRUE, MissingOut(m, a.out_eq))
    ELSE IF Cardinality(MissingOut(m, a.out_geq)) > 0
    THEN Error("ValueError", "out_geq", TRUE, MissingOut(m, a.out_geq))
    ELSE NoErr

\* lines 247-265: the exception the checks raise, NoErr if they all pass
MinCheckError(m, a) ==
    IF NVarRand(m) > 0
    THEN Error("ValueError", "rand", FALSE, {})
    ELSE IF ~(a.out_min \in Range(m.out))
    THEN Error("ValueError", "out_min", FALSE, {})
    ELSE IF Cardinality(MissingOut(m, a.out_geq)) > 0
    THEN Error("ValueError", "out_geq", TRUE, MissingOut(m, a.out_geq))
    ELSE IF Cardinality(MissingOut(m, a.out_eq)) > 0
    THEN Error("ValueError", "out_eq", TRUE, MissingOut(m, a.out_eq))
    ELSE NoErr

\* the checks made only after the solver has run
MinCheckLate ==
    /\ pc = "min_check"
    /\ err' = MinCheckError(model, args)
    /\ solver_calls' = solver_calls + 1
    /\ pc' = IF err' = NoErr THEN "min_start" ELSE "error"
    /\ UNCHANGED <<mcvars, first_run, model, op, args, out, var_fix,
                 var_feat, var_fit_set, var_fit, bounds, df_nom, x0, nls_i,
                 constraints, x_trial, df_var, n_eval, res, df_res, ret>>

\* lines 247-265: the checks of the model and of the output names
MinCheck ==
    /\ pc = "min_check"
    /\ err' = MinCheckError(model, args)
    /\ pc' = IF err' = NoErr THEN "min_start" ELSE "error"
    /\ UNCHANGED <<mcvars, first_run, model, op, args, out, var_fix,
                 var_feat, var_fit_set, var_fit, bounds, df_nom, x0, nls_i,
                 constraints, x_trial, df_var, n_eval, solver_calls, res,
                 df_res, ret>>

\* a df_start the caller passes: one row, every variable of the model at 0
GivenStart(m) == MakeRow(Var(m), [k \in DOMAIN Var(m) |-> 0])

\* lines 267-270: the initial guess, df_start or the nominal row
MinStart ==
    /\ pc = "min_start"
    /\ df_nom' = IF args.df_start THEN GivenStart(model) ELSE EvalNominal(model)
    /\ x0' = Select(df_nom', Var(model)).data[1]
    /\ pc' = "min_build"
    /\ UNCHANGED <<mcvars, first_run, model, op, args, out, var_fix,
                 var_feat, var_fit_set, var_fit, bounds, nls_i, constraints,
                 x_trial, df_var, n_eval, solver_calls, res, df_res, err,
                 ret>>

\* lines 273-279: make_fun(out)(x), the output `out` of the model at x
MakeFun(m, o, x) ==
    LET df == MakeRow(Var(m), x)
    IN  Select(EvalDf(m, df), <<o>>).data[1][1]

\* every callable reading the loop variable when it is called, after the
\* loops have ended: they all hold the last name iterated
ConstraintsLateBinding(a) ==
    LET geq == IF a.out_geq.none THEN <<>> ELSE a.out_geq.items
        eq == IF a.out_eq.none THEN <<>> ELSE a.out_eq.items
        last == IF eq /= <<>> THEN eq[Len(eq)] ELSE geq[Len(geq)]
    IN  [k \in DOMAIN geq |-> [type |-> "ineq", fun |-> last]]
        \o [k \in DOMAIN eq |-> [type |-> "eq", fun |-> last]]

\* lines 282-294: an entry per name of out_geq, then one per name of out_eq;
\* fun holds the name its callable was made for
Constraints(a) ==
    (IF a.out_geq.none THEN <<>>
     ELSE [k \in DOMAIN a.out_geq.items |-> [type |-> "ineq", fun |-> a.out_geq.items[k]]])
    \o
    (IF a.out_eq.none THEN <<>>
     ELSE [k \in DOMAIN a.out_eq.items |-> [type |-> "eq", fun |-> a.out_eq.items[k]]])

\* lines 272-297: build the constraints and enter minimize
MinBuild ==
    /\ pc = "min_build"
    /\ constraints' = Constraints(args)
    /\ solver_calls' = solver_calls + 1
    /\ n_eval' = 0
    /\ pc' = "min_min"
    /\ UNCHANGED <<mcvars, first_run, model, op, args, out, var_fix,
                 var_feat, var_fit_set, var_fit, bounds, df_nom, x0, nls_i,
                 x_trial, df_var, res, df_res, err, ret>>

\* lines 274-277: the solver evaluates the objective and the constraints at
\* a trial point
MinEvaluate ==
    /\ pc = "min_min"
    /\ n_eval < MaxEval
    /\ \E x \in Trials(x0) :
          /\ x_trial' = x
          /\ df_var' = MakeRow(Var(model), x)
    /\ n_eval' = n_eval + 1
    /\ UNCHANGED <<mcvars, first_run, model, op, args, pc, out, var_fix,
                 var_feat, var_fit_set, var_fit, bounds, df_nom, x0, nls_i,
                 constraints, solver_calls, res, df_res, err, ret>>

\* lines 297-307: minimize returns, converged or not
MinMinimizeReturn ==
    /\ pc = "min_min"
    /\ n_eval >= 1
    /\ \E status \in {0, 9} :
          res' = [x |-> x_trial, status |-> status,
                  fun |-> MakeFun(model, args.out_min, x_trial)]
    /\ pc' = "min_post"
    /\ UNCHANGED <<mcvars, first_run, model, op, args, out, var_fix,
                 var_feat, var_fit_set, var_fit, bounds, df_nom, x0, nls_i,
                 constraints, x_trial, df_var, n_eval, solver_calls, df_res,
                 err, ret>>

\* lines 309-311: one row, the variables of the model at the solution
MinReturn ==
    /\ pc = "min_post"
    /\ ret' = MakeRow(Var(model), res.x)
    /\ pc' = "done"
    /\ UNCHANGED <<mcvars, first_run, model, op, args, out, var_fix,
                 var_feat, var_fit_set, var_fit, bounds, df_nom, x0, nls_i,
                 constraints, x_trial, df_var, n_eval, solver_calls, res,
                 df_res, err>>

-----------------------------------------------------------------------------
(* The specifications *)

NoArgs == [nrestart |-> 1]

\* no earlier run
NoRun == [done |-> FALSE, var_fit |-> <<>>, bounds |-> <<>>, columns |-> <<>>]

\* eval_nls and eval_min not called, on the model m
OptIdle(m) ==
    /\ model = m
    /\ op = ""
    /\ args = NoArgs
    /\ pc = "idle"
    /\ out = <<>>
    /\ var_fix = {}
    /\ var_feat = {}
    /\ var_fit_set = {}
    /\ var_fit = <<>>
    /\ bounds = <<>>
    /\ df_nom = NoFrame
    /\ x0 = <<>>
    /\ nls_i = 0
    /\ constraints = <<>>
    /\ x_trial = <<>>
    /\ df_var = NoFrame
    /\ n_eval = 0
    /\ solver_calls = 0
    /\ res = [x |-> <<>>, status |-> 0, fun |-> 0]
    /\ df_res = NoFrame
    /\ err = NoErr
    /\ ret = NoFrame
    /\ first_run = NoRun

\* eval_monte_carlo not called, on the model m
McIdle(m) ==
    /\ md = m
    /\ rng = 0
    /\ mc_pc = [c \in Callers |-> "idle"]
    /\ mc_seed = [c \in Callers |-> NoSeed]
    /\ mc_n = [c \in Callers |-> 0]
    /\ mc_samples = [c \in Callers |-> <<>>]
    /\ mc_df = [c \in Callers |-> NoFrame]
    /\ mc_err = [c \in Callers |-> ""]
    /\ mc_Sigma = <<>>

InitMC == \E m \in McModels : McIdle(m) /\ OptIdle(MakeOptModel(<<0, 2>>, TRUE, <<0, 2>>, FALSE))

\* single-threaded use: the calls follow one another (caller 1, then caller
\* 2), and the rest of the process touches the generator only between them
NextMC ==
    \/ \E c \in Callers, seed \in Seeds, n \in 1..MaxSamples :
          /\ Quiet
          /\ \A d \in Callers : d < c => Finished(d)
          /\ McCall(c, seed, n)
    \/ \E c \in Callers : McCheck(c)
    \/ \E c \in Callers : McSeed(c)
    \/ \E c \in Callers : McDraw(c)
    \/ \E c \in Callers : McConvert(c)
    \/ \E s \in 0..MaxSeed : Quiet /\ EnvSeed(s)
    \/ Quiet /\ EnvDraw

SpecMC == InitMC /\ [][NextMC]_vars

InitOpt ==
    \E m \in OptModels :
        OptIdle(m) /\ McIdle(MakeModel(1, <<NormMarginal>>, <<0, 1>>, NoCorr, TRUE, 0))

\* one call of eval_nls or of eval_min
NextOpt ==
    \/ \E a \in NlsArgs : NlsCall(a)
    \/ NlsCheckOut
    \/ NlsRoles
    \/ NlsBounds
    \/ NlsInit
    \/ NlsIterate
    \/ NlsObjective
    \/ NlsMinimizeReturn
    \/ NlsReturn
    \/ \E a \in MinArgs : MinCall(a)
    \/ MinCheck
    \/ MinStart
    \/ MinBuild
    \/ MinEvaluate
    \/ MinMinimizeReturn
    \/ MinReturn

SpecOpt == InitOpt /\ [][NextOpt]_vars

\* the program is run again (a new interpreter, so a new iteration order of
\* its sets) and eval_nls is entered with the model and the arguments of the
\* run that has just returned, whose orders are kept for comparison
NlsRerun ==
    /\ op = "nls"
    /\ pc = "done"
    /\ ~first_run.done
    /\ first_run' = [done |-> TRUE, var_fit |-> var_fit, bounds |-> bounds,
                     columns |-> ret.columns]
    /\ pc' = "nls_out"
    /\ out' = <<>>
    /\ var_fix' = {}
    /\ var_feat' = {}
    /\ var_fit_set' = {}
    /\ var_fit' = <<>>
    /\ bounds' = <<>>
    /\ df_nom' = NoFrame
    /\ x0' = <<>>
    /\ nls_i' = 0
    /\ x_trial' = <<>>
    /\ df_var' = NoFrame
    /\ n_eval' = 0
    /\ solver_calls' = 0
    /\ res' = [x |-> <<>>, status |-> 0, fun |-> 0]
    /\ df_res' = NoFrame
    /\ ret' = NoFrame
    /\ UNCHANGED <<mcvars, model, op, args, constraints, err>>

\* eval_nls called, and called again in a second run on the same inputs
NextRerun ==
    \/ \E a \in NlsArgs : NlsCall(a)
    \/ NlsCheckOut
    \/ NlsRoles
    \/ NlsBounds
    \/ NlsInit
    \/ NlsIterate
    \/ NlsObjective
    \/ NlsMinimizeReturn
    \/ NlsReturn
    \/ NlsRerun

SpecRerun == InitOpt /\ [][NextRerun]_vars

\* two threads call eval_monte_carlo on the one generator of the process:
\* the steps of the two calls interleave freely
NextConcurrent ==
    \/ \E c \in Callers, seed \in Seeds, n \in 1..MaxSamples : McCall(c, seed, n)
    \/ \E c \in Callers : McCheck(c)
    \/ \E c \in Callers : McSeed(c)
    \/ \E c \in Callers : McDraw(c)
    \/ \E c \in Callers : McConvert(c)

SpecConcurrent == InitMC /\ [][NextConcurrent]_vars

\* the construction of Sigma on its own, for every size and every list
InitSigma ==
    \E m \in SigmaModels :
        McIdle(m) /\ OptIdle(MakeOptModel(<<0, 2>>, TRUE, <<0, 2>>, FALSE))

NextSigma == McBuildSigma

SpecSigma == InitSigma /\ [][NextSigma]_vars

-----------------------------------------------------------------------------
(* C1: two calls of eval_monte_carlo with the same model, the same given   *)
(* seed (0 included) and the same sample count build the same input table, *)
(* whatever was drawn from or seeded into the generator between them.      *)
C1_SameSeedSameInputs ==
    (/\ mc_pc[1] = "done" /\ mc_pc[2] = "done"
     /\ mc_seed[1] /= NoSeed /\ mc_seed[1] = mc_seed[2]
     /\ mc_n[1] = mc_n[2])
    => mc_df[1] = mc_df[2]

\* two finished calls with seed 0 and the most samples, the generator having
\* been moved since the second call left it
C1_Witness ==
    /\ mc_pc[1] = "done" /\ mc_pc[2] = "done"
    /\ mc_seed[1] = 0 /\ mc_seed[2] = 0
    /\ mc_n[1] = MaxSamples /\ mc_n[2] = MaxSamples
    /\ md.n_in = MaxIn
    /\ mc_df[1].data /= <<>>
    /\ rng /= RngIter(SeedState(0), MaxSamples * md.n_in)

-----------------------------------------------------------------------------
AllUniform == \A i \in DOMAIN md.pdf_factors : md.pdf_factors[i] = "unif"

\* the cells of a finished call's input table: <<row, column>>
Cells(c) == {p \in (1..mc_n[c]) \X (1..md.n_in) : TRUE}

(* C2, as claimed: with independent uniform marginals and no correlation   *)
(* matrix, every component of every sampled row lies within the Domain     *)
(* bounds of the variable heading its column, whatever the marginal        *)
(* parameters and the Domain bounds are.                                   *)
C2_WithinDomainBounds ==
    \A c \in Callers :
        (mc_pc[c] = "done" /\ AllUniform /\ ~md.has_corr) =>
            \A p \in Cells(c) :
                LET b == md.bounds[mc_df[c].columns[p[2]]]
                IN  /\ b[1] * Levels <= mc_df[c].data[p[1]][p[2]]
                    /\ mc_df[c].data[p[1]][p[2]] <= b[2] * Levels

(* C2, amended: with independent uniform marginals and no correlation      *)
(* matrix, every component of every sampled row lies between the lower and *)
(* upper parameters of its column's marginal (lower <= upper), hence       *)
(* within the Domain bounds of that column whenever these contain the      *)
(* marginal's interval.                                                    *)
C2_WithinMarginalRange ==
    \A c \in Callers :
        (mc_pc[c] = "done" /\ AllUniform /\ ~md.has_corr) =>
            \A p \in Cells(c) :
                LET b == md.bounds[mc_df[c].columns[p[2]]]
                    q == md.pdf_param[p[2]]
                    v == mc_df[c].data[p[1]][p[2]]
                IN  /\ q.lower * Levels <= v
                    /\ v <= q.upper * Levels
                    /\ (b[1] <= q.lower /\ q.upper <= b[2]) =>
                          (b[1] * Levels <= v /\ v <= b[2] * Levels)

\* a finished call on two uniform marginals, one of them reaching beyond the
\* Domain bounds, with a sample above the marginal's lower parameter
C2_Witness ==
    /\ mc_pc[1] = "done"
    /\ AllUniform /\ ~md.has_corr
    /\ md.n_in = MaxIn
    /\ mc_n[1] = MaxSamples
    /\ \E i \in DOMAIN md.pdf_param :
          /\ md.pdf_param[i].upper > md.bounds[md.inputs[i]][2]
          /\ \E r \in 1..mc_n[1] : mc_df[1].data[r][i] > md.pdf_param[i].lower * Levels

-----------------------------------------------------------------------------
\* eval_nls is past the check of `out`
NlsPastOut == op = "nls" /\ pc \notin {"idle", "nls_out"}

\* eval_nls is past the choice of var_fit: the check of `out` passed
NlsPastRoles ==
    /\ op = "nls"
    /\ pc \notin {"idle", "nls_out", "nls_roles"}
    /\ ~(pc = "error" /\ err.check = "out")

\* the names of `out` (model.out when it is omitted) that df_data lacks
MissingColumns ==
    {n \in Range(IF args.out.none THEN model.out ELSE args.out.items) :
        \A k \in DOMAIN args.df_data.columns : args.df_data.columns[k] /= n}

(* C3: eval_nls fails with a configuration error whenever `out` (the given *)
(* list, or model.out when omitted) has a name that is no column of        *)
(* df_data, the error names exactly the set out minus df_data.columns, and *)
(* the check never fails when out is a subset of the columns.              *)
C3_OutMustBeColumns ==
    NlsPastOut =>
        /\ MissingColumns /= {} =>
              /\ pc = "error"
              /\ err = Error("ValueError", "out", TRUE, MissingColumns)
        /\ MissingColumns = {} => err.check /= "out"

\* the default `out` is substituted and one of its two names is missing
C3_Witness ==
    /\ op = "nls" /\ pc = "error"
    /\ args.out.none
    /\ err.check = "out"
    /\ Cardinality(err.detail) = 1
    /\ Len(args.df_data.columns) >= 2

-----------------------------------------------------------------------------
\* the deterministic variables of the model whose bounds coincide
Degenerate == {v \in Range(model.var_det) : model.bounds[v][1] = model.bounds[v][2]}

\* the columns of the table df that are named v
ColumnsNamed(df, v) == {k \in DOMAIN df.columns : df.columns[k] = v}

(* C4: in every eval_nls call, whatever var_fix is passed, every           *)
(* deterministic variable of Domain width 0 is placed in var_fix, is never *)
(* in var_fit nor a column of the result, and is held at its nominal value *)
(* in every evaluation of the objective.                                   *)
C4_ZeroWidthHeldFixed ==
    NlsPastRoles =>
        \A v \in Degenerate :
            /\ v \in var_fix
            /\ v \notin var_fit_set
            /\ v \notin Range(var_fit)
            /\ ColumnsNamed(df_res, v) = {}
            /\ ColumnsNamed(ret, v) = {}
            /\ \A k \in ColumnsNamed(df_var, v) :
                  \A r \in DOMAIN df_var.data : df_var.data[r][k] = model.bounds[v][1]

-----------------------------------------------------------------------------
(* C5: eval_min fails with a configuration error, before any nominal       *)
(* evaluation or solver invocation, whenever the model has at least one    *)
(* random variable, whatever out_min, out_geq, out_eq and df_start are.    *)
C5_RandomModelRejected ==
    (op = "min" /\ pc /= "min_check" /\ Len(model.var_rand) >= 1) =>
        /\ pc = "error"
        /\ err.kind = "ValueError"
        /\ err.check = "rand"
        /\ df_nom = NoFrame
        /\ solver_calls = 0
        /\ n_eval = 0

\* a model with exactly one random variable is rejected although out_min
\* is unknown, both constraint lists are given and df_start is passed
C5_Witness ==
    /\ op = "min" /\ pc = "error"
    /\ Len(model.var_rand) = 1
    /\ err.check = "rand"
    /\ args.out_min = "h"
    /\ ~args.out_geq.none /\ ~args.out_eq.none
    /\ args.df_start

-----------------------------------------------------------------------------
\* the names of a constraint list of eval_min that are no output of the model
Unknown(names) ==
    IF names.none THEN {}
    ELSE {n \in Range(names.items) : \A k \in DOMAIN model.out : model.out[k] /= n}

MinChecked == op = "min" /\ pc /= "min_check" /\ Len(model.var_rand) = 0

OutMinKnown == \E k \in DOMAIN model.out : model.out[k] = args.out_min

(* C6, as claimed: eval_min on a model without random variables fails when *)
(* out_min is no output or a constraint list has an unknown name, and when *)
(* both lists have unknown names the missing names of out_geq and those of *)
(* out_eq are both reported.                                               *)
C6_BothListsReported ==
    MinChecked =>
        /\ (~OutMinKnown \/ Unknown(args.out_geq) /= {} \/ Unknown(args.out_eq) /= {}) =>
              (pc = "error" /\ err.kind = "ValueError")
        /\ (OutMinKnown /\ Unknown(args.out_geq) /= {} /\ Unknown(args.out_eq) /= {}) =>
              (Unknown(args.out_geq) \cup Unknown(args.out_eq)) \subseteq err.detail

(* C6, amended: eval_min on a model without random variables fails when    *)
(* out_min is no output or a constraint list has an unknown name; the      *)
(* failure reports the first check that fails and no other: an unknown     *)
(* out_min without names, else the missing names of out_geq, else (out_geq *)
(* passing) the missing names of out_eq.                                   *)
C6_FirstFailingListReported ==
    MinChecked =>
        IF ~OutMinKnown
        THEN pc = "error" /\ err = Error("ValueError", "out_min", FALSE, {})
        ELSE IF Unknown(args.out_geq) /= {}
        THEN pc = "error" /\ err = Error("ValueError", "out_geq", TRUE, Unknown(args.out_geq))
        ELSE IF Unknown(args.out_eq) /= {}
        THEN pc = "error" /\ err = Error("ValueError", "out_eq", TRUE, Unknown(args.out_eq))
        ELSE err = NoErr

\* both lists have unknown names, and the failure names those of out_geq
C6_Witness ==
    /\ MinChecked /\ pc = "error"
    /\ OutMinKnown
    /\ Unknown(args.out_geq) /= {}
    /\ Unknown(args.out_eq) /= {}
    /\ ~(Unknown(args.out_eq) \subseteq Unknown(args.out_geq))
    /\ err.check = "out_geq"

-----------------------------------------------------------------------------
(* C7: in eval_nls and eval_min every configuration error (missing out     *)
(* columns, empty var_fit, non-finite nominal, model with random           *)
(* variables, unknown out_min, out_geq or out_eq) is raised before the     *)
(* first solver invocation and before any result row is built.             *)
C7_ConfigErrorsBeforeSolver ==
    err.kind = "ValueError" =>
        /\ err.check \in {"out", "var_fit", "nominal", "rand", "out_min", "out_geq", "out_eq"}
        /\ solver_calls = 0
        /\ n_eval = 0
        /\ df_res = NoFrame
        /\ ret = NoFrame

\* the last of the checks of eval_nls fails: nothing has been solved or built
C7_Witness ==
    /\ op = "nls" /\ pc = "error"
    /\ err.kind = "ValueError"
    /\ err.check = "nominal"
    /\ args.nrestart = 1
    /\ var_fit /= <<>>

-----------------------------------------------------------------------------
\* the deterministic fit variables whose bounds are not both finite, so that
\* their midpoint is not finite
UnboundedFit ==
    {v \in Range(model.var_det) \cap var_fit_set :
        ~(IsFinite(model.bounds[v][1]) /\ IsFinite(model.bounds[v][2]))}

\* what each configuration failure is about
Offenders(check) ==
    IF check = "out" THEN MissingColumns
    ELSE IF check = "var_fit" THEN Range(model.var_det) \cup Range(model.var_rand)
    ELSE IF check = "nominal" THEN UnboundedFit
    ELSE IF check = "rand" THEN Range(model.var_rand)
    ELSE IF check = "out_min" THEN {args.out_min}
    ELSE IF check = "out_geq" THEN Unknown(args.out_geq)
    ELSE Unknown(args.out_eq)

(* C8, as claimed: every configuration failure of eval_nls and eval_min    *)
(* carries the exact offending set of variables or columns in its message, *)
(* never a generic message.                                                *)
C8_EveryFailureNamesOffenders ==
    err.kind = "ValueError" => (err.named /\ err.detail = Offenders(err.check))

(* C8, amended: the missing-out-columns, non-finite-nominal, unknown-      *)
(* out_geq and unknown-out_eq failures carry the exact offending set in    *)
(* their message; the empty-var_fit, random-variable-model and unknown-    *)
(* out_min failures carry a fixed message that names no variable, column   *)
(* or output.                                                              *)
C8_FourFailuresNameOffenders ==
    err.kind = "ValueError" =>
        IF err.check \in {"out", "nominal", "out_geq", "out_eq"}
        THEN err.named /\ err.detail = Offenders(err.check)
        ELSE ~err.named /\ err.detail = {}

\* two deterministic fit variables without a finite nominal value are named
C8_Witness ==
    /\ op = "nls" /\ pc = "error"
    /\ err.check = "nominal"
    /\ err.named
    /\ Cardinality(err.detail) = 2

-----------------------------------------------------------------------------
(* C9: a call of eval_nls or eval_min with nrestart > 1 ends in a          *)
(* not-implemented failure (unless a configuration error ends it first)    *)
(* and never runs the solver as a silent single-start solve.               *)
C9_NrestartNotImplemented ==
    (op \in {"nls", "min"} /\ args.nrestart > 1) =>
        /\ solver_calls = 0
        /\ pc /= "done"
        /\ pc = "error" => err.kind \in {"NotImplementedError", "ValueError"}

-----------------------------------------------------------------------------
(* C10: in eval_nls var_fit is exactly model.var minus (var_fix union      *)
(* var_feat), var_feat being model.var intersected with df_data.columns,   *)
(* and, the check of `out` having passed, the call fails with the "no      *)
(* variable selected for fitting" error if and only if that set is empty.  *)
C10_VarFitIsTheRest ==
    NlsPastRoles =>
        LET vars_ == Range(model.var_det) \cup Range(model.var_rand)
            cols == {args.df_data.columns[k] : k \in DOMAIN args.df_data.columns}
        IN  /\ var_feat = {v \in vars_ : v \in cols}
            /\ var_fit_set = {v \in vars_ : v \notin var_fix /\ v \notin var_feat}
            /\ (pc = "error" /\ err = Error("ValueError", "var_fit", FALSE, {}))
                  <=> (var_fit_set = {})

\* every variable is fixed or a feature, the caller having passed no var_fix
C10_Witness ==
    /\ NlsPastRoles /\ pc = "error"
    /\ err.check = "var_fit"
    /\ args.var_fix.none
    /\ var_feat /= {}
    /\ var_fix /= {}

-----------------------------------------------------------------------------
\* eval_nls is past the construction of the bounds of the fit variables
NlsPastBounds ==
    /\ NlsPastRoles
    /\ pc /= "nls_bounds"
    /\ ~(pc = "error" /\ err.check = "var_fit")

\* the deterministic fit variables whose nominal value is not finite
NominalNotFinite ==
    {v \in Range(model.var_det) \cap var_fit_set :
        ~IsFinite(GetNominal(model, v))}

(* C11: in eval_nls, when one or more deterministic fit variables have a   *)
(* nominal value that is not finite, the call fails with a configuration   *)
(* error whose message names all of those variables and no others; when    *)
(* there is none, no such error is raised, whatever the random fit         *)
(* variables, the fixed variables and the feature variables are.           *)
C11_AllNonFiniteNominalsNamed ==
    NlsPastBounds =>
        IF NominalNotFinite /= {}
        THEN /\ pc = "error"
             /\ err = Error("ValueError", "nominal", TRUE, NominalNotFinite)
        ELSE err.check /= "nominal"

\* both deterministic fit variables are named while a random variable is
\* fitted too
C11_Witness ==
    /\ NlsPastBounds /\ pc = "error"
    /\ err.check = "nominal"
    /\ err.detail = {"a", "b"}
    /\ Range(model.var_rand) \cap var_fit_set /= {}

-----------------------------------------------------------------------------
\* eval_nls has passed every check it makes before the loop over the initial
\* guesses
NlsValidated ==
    /\ op = "nls"
    /\ \/ pc \in {"nls_loop", "nls_min", "nls_post", "done"}
       \/ pc = "error" /\ err.kind \notin {"ValueError", "NotImplementedError"}

\* the value row i of table df holds under the name n
Cell(df, i, n) == df.data[i][ColIndex(df, n)]

(* C12: every eval_nls call that passes validation returns instead of      *)
(* raising, for every outcome of the solver (status 0 or not); the result  *)
(* has exactly one row per initial guess, in the order of the guesses,     *)
(* each row holding the fitted value of every var_fit variable, its        *)
(* initial value under the name with "_0" appended, the solver status and  *)
(* the final objective value; with append = False the returned table has   *)
(* exactly the var_fit columns.                                            *)
C12_ValidatedCallReturnsOneRowPerGuess ==
    NlsValidated =>
        /\ pc /= "error"
        /\ pc = "done" =>
              LET guesses == Select(df_nom, var_fit).data
              IN  /\ Len(df_res.data) = Len(guesses)
                  /\ df_res.columns = var_fit \o Suffix0(var_fit) \o <<"status", "mse">>
                  /\ \A i \in DOMAIN guesses :
                        /\ \A k \in DOMAIN var_fit :
                              /\ Cell(df_res, i, var_fit[k] \o "_0") = guesses[i][k]
                              /\ i = Len(guesses) => Cell(df_res, i, var_fit[k]) = res.x[k]
                        /\ Cell(df_res, i, "status") \in {0, 9}
                        /\ i = Len(guesses) =>
                              /\ Cell(df_res, i, "status") = res.status
                              /\ Cell(df_res, i, "mse") = res.fun
                  /\ ret = IF args.append THEN df_res
                           ELSE [columns |-> var_fit,
                                 data |-> [i \in DOMAIN guesses |-> res.x]]

-----------------------------------------------------------------------------
(* C13: in every eval_nls call that reaches the solver, var_fix, var_feat  *)
(* and var_fit are pairwise disjoint and their union is model.var, for     *)
(* every var_fix the caller passes and every set of df_data columns.       *)
C13_RolesPartitionVar ==
    (op = "nls" /\ solver_calls >= 1) =>
        /\ var_fix \cap var_feat = {}
        /\ var_fix \cap var_fit_set = {}
        /\ var_feat \cap var_fit_set = {}
        /\ Range(var_fit) = var_fit_set
        /\ var_fix \cup var_feat \cup var_fit_set =
              Range(model.var_det) \cup Range(model.var_rand)

-----------------------------------------------------------------------------
(* C14: in eval_nls the list var_fit puts every deterministic fit variable *)
(* before every random one, and the whole order is a function of the       *)
(* inputs alone: a second run with the same model, df_data and var_fix     *)
(* yields the same var_fit order, the same order of the bounds and the     *)
(* same order of the result's columns as the first.                        *)
C14_FitOrderReproducible ==
    (op = "nls" /\ NlsPastBounds) =>
        /\ \A i, j \in DOMAIN var_fit :
              (i < j /\ var_fit[i] \in Range(model.var_rand))
                  => var_fit[j] \in Range(model.var_rand)
        /\ first_run.done =>
              /\ var_fit = first_run.var_fit
              /\ pc /= "error" => bounds = first_run.bounds
              /\ pc = "done" => ret.columns = first_run.columns

-----------------------------------------------------------------------------
\* the model has no density, or as many marginals as parameter sets it has not
BadDensity == ~md.density \/ Len(md.pdf_factors) /= Len(md.pdf_param)

(* C15: eval_monte_carlo fails with a configuration error when the model   *)
(* has no density or when the lengths of pdf_factors and pdf_param differ, *)
(* and no step of such a call changes the state of the shared generator,   *)
(* even when a seed was passed: the call ends at the check, builds no      *)
(* table, and the generator is as the call found it.                       *)
C15_ConfigErrorLeavesGenerator ==
    /\ [](\A c \in Callers :
            (BadDensity /\ mc_pc[c] \notin {"idle", "check"}) =>
                /\ mc_pc[c] = "error"
                /\ mc_err[c] \in {"ValueError: not factorable",
                                  "ValueError: lengths differ"}
                /\ mc_samples[c] = <<>>
                /\ mc_df[c] = NoFrame)
    /\ [][\A c \in Callers :
            (BadDensity /\ Running(c)) => rng' = rng]_vars

\* a call with seed 1 on a model without a usable density has failed, and the
\* generator is still in its first state
C15_Witness ==
    /\ BadDensity
    /\ mc_pc[1] = "error"
    /\ mc_seed[1] = 1
    /\ rng = 0 /\ rng /= SeedState(1)

-----------------------------------------------------------------------------
\* the input table the call of caller c builds when it runs alone: the
\* generator seeded with its seed, then drawn from by this call only
AloneTable(c) ==
    LET st == SeedState(mc_seed[c])
        raw == IF md.has_corr
               THEN CopulaMatrix(st, mc_n[c], md.n_in, BuildSigma(md.n_in, md.pdf_corr))
               ELSE RandomMatrix(st, mc_n[c], md.n_in)
    IN  [columns |-> md.inputs,
         data |-> [r \in 1..mc_n[c] |->
                     [ind \in 1..md.n_in |-> ConvertCell(raw[r][ind], ind)]]]

\* the seeded call of caller c has returned a table that is not the one it
\* returns when run alone with its seed
SeededCallDiffers(c) ==
    /\ mc_pc[c] = "done"
    /\ mc_seed[c] /= NoSeed
    /\ mc_df[c] /= AloneTable(c)

\* caller d has seeded the generator or drawn from it
TouchedGenerator(d) ==
    \/ mc_pc[d] \in {"draw", "convert", "done"} /\ mc_seed[d] /= NoSeed
    \/ mc_pc[d] \in {"convert", "done"}

(* C16: two concurrent invocations of eval_monte_carlo are not ordering-   *)
(* safe: an interleaving of their seed and draw steps makes a seeded call  *)
(* return inputs that differ from those it returns alone with that seed    *)
(* (the state C16_Witness, which is reached); and a seeded call returns    *)
(* such inputs only when the other invocation has seeded the generator or  *)
(* drawn from it.                                                          *)
C16_DifferenceNeedsOtherCall ==
    \A c \in Callers :
        SeededCallDiffers(c) => \E d \in Callers \ {c} : TouchedGenerator(d)

\* caller 1, seeded, has returned other inputs than when run alone
C16_Witness == SeededCallDiffers(1) /\ mc_pc[2] = "done"

-----------------------------------------------------------------------------
(* C17: the matrix Sigma that eval_monte_carlo builds from the list of     *)
(* off-diagonal correlations is symmetric with a unit diagonal, for every  *)
(* n_in >= 2 and every list of n_in (n_in - 1) / 2 entries.                *)
C17_SigmaSymmetricUnitDiagonal ==
    mc_Sigma /= <<>> =>
        \A i, j \in 0..(md.n_in - 1) :
            /\ mc_Sigma[<<i, j>>] = mc_Sigma[<<j, i>>]
            /\ mc_Sigma[<<i, i>>] = 1

-----------------------------------------------------------------------------
\* column ind of the matrix rows
Column(rows, ind) == [r \in DOMAIN rows |-> rows[r][ind]]

\* the marginal of input ind is the uniform on [0, 1]
StandardUniform(ind) ==
    /\ md.pdf_factors[ind] = "unif"
    /\ md.pdf_param[ind].lower = 0
    /\ md.pdf_param[ind].upper = 1

(* C18: when eval_monte_carlo converts the drawn uniforms, the column of   *)
(* every input is replaced by its marginal's quantile function applied to  *)
(* it, for every marginal family the density names: no column is left as   *)
(* the raw uniforms when its marginal is not the uniform on [0, 1].        *)
C18_EveryColumnConverted ==
    [][\A c \in Callers :
        (mc_pc[c] = "convert" /\ mc_pc'[c] = "done") =>
            \A ind \in 1..md.n_in :
                LET raw == Column(mc_samples[c], ind)
                    new == Column(mc_df'[c].data, ind)
                    p == md.pdf_param[ind]
                IN  /\ md.pdf_factors[ind] = "unif" =>
                          new = [r \in DOMAIN raw |->
                                    p.lower * Levels + raw[r] * (p.upper - p.lower)]
                    /\ md.pdf_factors[ind] = "norm" =>
                          new = [r \in DOMAIN raw |-> NormPpf(raw[r], p.loc, p.scale)]
                    /\ ~StandardUniform(ind) => new /= raw]_vars

-----------------------------------------------------------------------------
\* the names of a list argument, none for None
Items(l) == IF l.none THEN <<>> ELSE l.items

\* eval_min has built its constraints and entered the solver
MinSolving == op = "min" /\ pc \in {"min_min", "min_post", "done"}

(* C19: the constraints eval_min hands to the solver are one entry per     *)
(* name of out_geq, of type inequality, followed by one entry per name of  *)
(* out_eq, of type equality, in the order of the lists; the callable of    *)
(* each entry returns, at the point the solver tries, the model output of  *)
(* that entry's own name, and the objective returns the output out_min:    *)
(* no callable returns the output of another name.                         *)
C19_ConstraintsBindOwnOutput ==
    MinSolving =>
        LET geq == Items(args.out_geq)
            eq == Items(args.out_eq)
            n_geq == Len(geq)
        IN  /\ Len(constraints) = n_geq + Len(eq)
            /\ \A k \in DOMAIN geq :
                  /\ constraints[k].type = "ineq"
                  /\ constraints[k].fun = geq[k]
                  /\ n_eval >= 1 =>
                        MakeFun(model, constraints[k].fun, x_trial)
                            = OutputValue(geq[k], x_trial)
            /\ \A k \in DOMAIN eq :
                  /\ constraints[n_geq + k].type = "eq"
                  /\ constraints[n_geq + k].fun = eq[k]
                  /\ n_eval >= 1 =>
                        MakeFun(model, constraints[n_geq + k].fun, x_trial)
                            = OutputValue(eq[k], x_trial)
            /\ pc \in {"min_post", "done"} =>
                  res.fun = OutputValue(args.out_min, res.x)

\* two inequality constraints and an equality constraint, at a point where
\* the outputs f and g differ
C19_Witness ==
    /\ MinSolving /\ pc = "done"
    /\ Len(constraints) = 3
    /\ OutputValue("f", res.x) /= OutputValue("g", res.x)

-----------------------------------------------------------------------------
\* the nominal value eval_nls fixes the variable v at
NominalOf(v) ==
    IF v \in Range(model.var_det) THEN GetNominal(model, v) ELSE MarginalQ.median

\* the square of the residual of output o in row i of the latest table
SquaredResidual(i, o) ==
    LET d == Cell(EvalDf(model, df_var), i, o) - Cell(args.df_data, i, o)
    IN  d * d

(* C20: the table eval_nls's objective evaluates at a trial vector x has   *)
(* one row per row of df_data, in the same order; row i holds df_data row  *)
(* i's values of the var_feat columns, then the nominal values of var_fix, *)
(* then x under the names of var_fit; and the objective value is the sum   *)
(* of the squared residuals over all rows and all `out` columns divided by *)
(* (rows times out columns), one scalar.                                   *)
C20_ObjectiveIsJointMse ==
    (op = "nls" /\ n_eval >= 1) =>
        LET data == args.df_data
            n_feat == Cardinality(var_feat)
            n_fix == Cardinality(var_fix)
        IN  /\ Len(df_var.data) = Len(data.data)
            /\ Len(df_var.columns) = n_feat + n_fix + Len(var_fit)
            /\ {df_var.columns[k] : k \in 1..n_feat} = var_feat
            /\ {df_var.columns[n_feat + k] : k \in 1..n_fix} = var_fix
            /\ \A i \in DOMAIN data.data, k \in DOMAIN df_var.columns :
                  df_var.data[i][k] =
                      IF k <= n_feat THEN Cell(data, i, df_var.columns[k])
                      ELSE IF k <= n_feat + n_fix THEN NominalOf(df_var.columns[k])
                      ELSE x_trial[k - n_feat - n_fix]
            /\ \A k \in DOMAIN var_fit :
                  df_var.columns[n_feat + n_fix + k] = var_fit[k]
            /\ nls_i >= 1 =>
                  /\ res.fun.count = Len(data.data) * Len(out)
                  /\ res.fun.sum =
                        SumSeq([i \in DOMAIN data.data |->
                                  SumSeq([k \in DOMAIN out |-> SquaredResidual(i, out[k])])])

\* two rows of data, two output columns, a feature and a fixed variable, and
\* a fit that leaves a residual
C20_Witness ==
    /\ op = "nls" /\ pc = "done"
    /\ Len(args.df_data.data) = 2
    /\ Len(out) = 2
    /\ var_feat /= {} /\ var_fix /= {} /\ var_feat \cap var_fix = {}
    /\ res.fun.sum > 0
    /\ res.fun.count = 4

-----------------------------------------------------------------------------
\* the first k uniforms a generator in state st gives, in the order drawn
RECURSIVE FirstDraws(_, _)
FirstDraws(st, k) ==
    IF k = 0 THEN <<>>
    ELSE <<RngOut(RngStep(st))>> \o FirstDraws(RngStep(st), k - 1)

\* the generator state after k draws from state st
RECURSIVE AfterDraws(_, _)
AfterDraws(st, k) == IF k = 0 THEN st ELSE RngStep(AfterDraws(st, k - 1))

\* caller c has passed a seed and the model has no correlation matrix
SeededNoCorr(c) == mc_seed[c] /= NoSeed /\ ~md.has_corr

(* C21: for a model without a correlation matrix, a seeded call of         *)
(* eval_monte_carlo with sample count n draws right after seeding, takes   *)
(* exactly n * n_in uniforms from the shared generator and leaves it in    *)
(* the state reached after exactly those draws; with every marginal the    *)
(* uniform on [0, 1], cell (r, i) of its input table is draw number        *)
(* (r - 1) * n_in + i of a generator freshly seeded with the same seed     *)
(* (row-major order).                                                      *)
C21_SeededDrawsRowMajor ==
    \A c \in Callers :
        SeededNoCorr(c) =>
            LET fresh == SeedState(mc_seed[c])
                k == mc_n[c] * md.n_in
            IN  /\ mc_pc[c] = "draw" => rng = fresh
                /\ mc_pc[c] = "convert" => rng = AfterDraws(fresh, k)
                /\ (mc_pc[c] = "done" /\ \A i \in 1..md.n_in : StandardUniform(i)) =>
                      /\ mc_df[c].columns = md.inputs
                      /\ Len(mc_df[c].data) = mc_n[c]
                      /\ \A r \in 1..mc_n[c], i \in 1..md.n_in :
                            mc_df[c].data[r][i] =
                                FirstDraws(fresh, k)[(r - 1) * md.n_in + i]

\* a seeded call on two standard-uniform inputs has returned two rows whose
\* transposed cells differ, the generator still where the draws left it
C21_Witness ==
    /\ SeededNoCorr(1)
    /\ mc_pc[1] = "done"
    /\ mc_n[1] = 2 /\ md.n_in = 2
    /\ \A i \in 1..md.n_in : StandardUniform(i)
    /\ mc_df[1].data[1][2] /= mc_df[1].data[2][1]
    /\ rng = AfterDraws(SeedState(mc_seed[1]), 4)

====
